---- MODULE Spec2Model ----
(***************************************************************************)
(* Model of src/gateway/process.ts: the OpenClaw gateway supervisor.       *)
(*                                                                         *)
(*   preseedOpenClawConfig      credential selection and config seeding    *)
(*   findExistingMoltbotProcess classification of the sandbox process list *)
(*   ensureMoltbotGateway       reuse / kill-and-restart / fresh start     *)
(*                                                                         *)
(* Every `await` of ensureMoltbotGateway is a point where another          *)
(* invocation against the same sandbox may run, so each awaited sandbox    *)
(* call that reads or changes the sandbox's process list is one action.    *)
(* Time is discrete: a starting gateway counts the ticks down to the       *)
(* opening of its port, a readiness probe the ticks down to its timeout.   *)
(* A probe succeeds once the probed process is reachable and times out     *)
(* when its countdown has run out with the process still unreachable.      *)
(*                                                                         *)
(* Command lines are sequences of atoms (fixed chunks of characters chosen *)
(* so that no pattern of the classifier straddles an atom boundary);       *)
(* String.prototype.includes is contiguous-subsequence containment.        *)
(***************************************************************************)
EXTENDS Integers, Sequences, FiniteSets, Bags, TLC

VARIABLES
    procs,       \* the sandbox's process list, in listing order
    inv,         \* the invocations of ensureMoltbotGateway, a bag of records
    env,         \* the worker environment bindings (MoltbotEnv)
    configFile,  \* /root/.openclaw/openclaw.json in the sandbox
    faults       \* sandbox calls that may still fail

vars == <<procs, inv, env, configFile, faults>>

-----------------------------------------------------------------------------
(* Bounds of the model *)

\* number of ensureMoltbotGateway invocations against the one sandbox
NumInvocations == 2

\* longest process list the classifier specification draws
MaxList == 2

\* sandbox calls that may fail in one behaviour
MaxFaults == 1

\* number of invocations in the specification with fairness
FairInvocations == 1

\* STARTUP_TIMEOUT_MS in clock ticks (imported from ../config, line 3)
STARTUP_TIMEOUT_MS == 1

Never == -1

-----------------------------------------------------------------------------
(* Command lines *)

SP == " "

\* the launcher script under a name the classifier does not know
RenamedGatewayCommand == <<"/usr/local/bin/", "start-gateway.sh">>

\* line 186: const command = '/usr/local/bin/start-openclaw.sh'
GatewayCommand == <<"/usr/local/bin/", "start-openclaw.sh">>

\* line 77: mkdir -p /root/.openclaw && node -e '...writeFileSync("/root/.openclaw/openclaw.json", ...)' '<json>'
\* cut where a pattern of lines 105-115 could begin or end
WriteCommand(json) ==
    <<"mkdir -p /root/.", "openclaw", SP,
      "&& node -e 'require(\"fs\").writeFileSync(\"/root/.", "openclaw", "/", "openclaw",
      ".json\", JSON.stringify(JSON.parse(process.argv[1]), null, 2))' '", json, "'">>

\* s.includes(pat)
Includes(s, pat) ==
    \E i \in 0..(Len(s) - Len(pat)) : SubSeq(s, i + 1, i + Len(pat)) = pat

\* the patterns of lines 107-109 alone, without those of the renamed launcher
LauncherPatternsLegacyOnly ==
    { <<"start-moltbot.sh">>,
      <<"clawdbot", SP, "gateway">> }

\* lines 104-109
LauncherPatterns ==
    { <<"start-openclaw.sh">>,
      <<"openclaw", SP, "gateway">>,
      <<"start-moltbot.sh">>,
      <<"clawdbot", SP, "gateway">> }

\* lines 110-115
CliPatterns ==
    { <<"openclaw", SP, "devices">>,
      <<"openclaw", SP, "--version">>,
      <<"openclaw", SP, "onboard">>,
      <<"clawdbot", SP, "devices">>,
      <<"clawdbot", SP, "--version">> }

isGatewayProcess(command) == \E pat \in LauncherPatterns : Includes(command, pat)

isCliCommand(command) == \E pat \in CliPatterns : Includes(command, pat)

\* line 118
LiveStatuses == {"starting", "running"}

\* lines 117-121: the test a process of the listing must pass to be returned
IsLiveGateway(proc) ==
    /\ isGatewayProcess(proc.command)
    /\ ~isCliCommand(proc.command)
    /\ proc.status \in LiveStatuses

\* the loop without the !isCliCommand test of line 117
RECURSIVE ScanFromNoCliTest(_, _)
ScanFromNoCliTest(processes, i) ==
    IF i > Len(processes) THEN 0
    ELSE IF isGatewayProcess(processes[i].command)
            /\ processes[i].status \in LiveStatuses THEN i
    ELSE ScanFromNoCliTest(processes, i + 1)

\* lines 101-122: the for loop over the listing, from index i on; 0 is null
RECURSIVE ScanFrom(_, _)
ScanFrom(processes, i) ==
    IF i > Len(processes) THEN 0
    ELSE IF IsLiveGateway(processes[i]) THEN i
    ELSE ScanFrom(processes, i + 1)

\* the last live gateway of a listing, 0 for none
LastLive(processes) ==
    LET live == {k \in 1..Len(processes) : IsLiveGateway(processes[k])} IN
    IF live = {} THEN 0 ELSE CHOOSE k \in live : \A j \in live : j <= k

\* lines 98-127: listOk = FALSE is listProcesses() throwing (caught, line 123)
findExistingMoltbotProcess(processes, listOk) ==
    IF listOk THEN ScanFrom(processes, 1) ELSE 0

-----------------------------------------------------------------------------
(* Credential selection and the seeded config, lines 17-71 *)

Providers == {"GEMINI", "ANTHROPIC", "OPENAI"}

\* the branches of lines 20 and 33 in the other order
SelectProviderAnthropicFirst(keys) ==
    IF "ANTHROPIC" \in keys THEN "ANTHROPIC"
    ELSE IF "GEMINI" \in keys THEN "GEMINI"
    ELSE IF "OPENAI" \in keys THEN "OPENAI"
    ELSE "NONE"

\* lines 20-56: the provider whose key is the first one present
SelectProvider(keys) ==
    IF "GEMINI" \in keys THEN "GEMINI"
    ELSE IF "ANTHROPIC" \in keys THEN "ANTHROPIC"
    ELSE IF "OPENAI" \in keys THEN "OPENAI"
    ELSE "NONE"

\* lines 21-31, 34-41, 44-51
ProviderConfig(e) ==
    LET sel == SelectProvider(e.keys) IN
    IF sel = "GEMINI" THEN
        [p \in {"google-gemini"} |->
            [api |-> "openai-completions", apiKey |-> "GEMINI",
             baseUrl |-> "https://generativelanguage.googleapis.com/v1beta/openai/",
             models |-> <<"gemini-2.0-flash", "gemini-2.5-flash-preview-05-20">>]]
    ELSE IF sel = "ANTHROPIC" THEN
        [p \in {"anthropic"} |->
            [api |-> "anthropic-messages", apiKey |-> "ANTHROPIC",
             baseUrl |-> IF e.baseUrl THEN "ANTHROPIC_BASE_URL"
                         ELSE "https://api.anthropic.com",
             models |-> <<"claude-sonnet-4-20250514">>]]
    ELSE IF sel = "OPENAI" THEN
        [p \in {"openai"} |->
            [api |-> "openai-completions", apiKey |-> "OPENAI",
             baseUrl |-> "https://api.openai.com/v1",
             models |-> <<"gpt-4o">>]]
    ELSE [p \in {} |-> "none"]

\* lines 32, 42, 52
DefaultModel(e) ==
    LET sel == SelectProvider(e.keys) IN
    IF sel = "GEMINI" THEN "google-gemini/gemini-2.0-flash"
    ELSE IF sel = "ANTHROPIC" THEN "anthropic/claude-sonnet-4-20250514"
    ELSE IF sel = "OPENAI" THEN "openai/gpt-4o"
    ELSE ""

\* the early return of line 55 lost
NeverSkipPreseed(e) == FALSE

\* lines 53-56: the early return when no key is present
SkipPreseed(e) == SelectProvider(e.keys) = "NONE"

\* lines 58-71
BuildConfig(e) ==
    [providers    |-> ProviderConfig(e),
     defaultModel |-> DefaultModel(e),
     auth         |-> IF e.token THEN "token" ELSE "none",
     allowInsecureAuth |-> e.dev]

Envs == [keys : SUBSET Providers, baseUrl : BOOLEAN, token : BOOLEAN, dev : BOOLEAN]

-----------------------------------------------------------------------------
(* The sandbox *)

\* a process of the sandbox: its command line, its status, the ticks its
\* startup takes from launch to the opening of its port (Never: the startup
\* script hangs) and the ticks left until then
Proc(command, status, delay, opensIn) ==
    [command |-> command, status |-> status, delay |-> delay, opensIn |-> opensIn]

\* waitForPort(MOLTBOT_PORT) resolves: the process is alive and its port is open
Reachable(p) ==
    /\ procs[p].status \in LiveStatuses
    /\ procs[p].opensIn = 0

\* a shortened timeout for the probe of a discovered process
ShortReuseTimeout == STARTUP_TIMEOUT_MS - 1

\* line 161: timeout of the probe of a discovered process
ReuseTimeout == STARTUP_TIMEOUT_MS

\* line 205: timeout of the probe of the freshly launched process
FreshTimeout == STARTUP_TIMEOUT_MS

\* the errors an invocation can meet
NoError == [kind |-> "none", stderr |-> ""]
TimeoutError == [kind |-> "timeout", stderr |-> ""]
StartError == [kind |-> "start", stderr |-> ""]
LogsError == [kind |-> "logs", stderr |-> ""]

\* one invocation of ensureMoltbotGateway
\*   pc        where the invocation is
\*   existing  existingProcess (line 147), 0 for null
\*   process   the launched process (line 193), 0 before
\*   remaining ticks left to the probe in progress
\*   result    the handle returned, 0 before
\*   error     the error thrown, "none" before
\*   log       the sandbox calls issued, in order
\*   helper    the config-write process (line 79), 0 before
\*   listed    the last live gateway listProcesses returned (line 100), 0
\*             for none: what the listing showed besides `existing`
\*   caught    the error caught at line 211
NewInvocation ==
    [pc |-> "idle", existing |-> 0, listed |-> 0, helper |-> 0, process |-> 0, remaining |-> 0,
     result |-> 0, caught |-> NoError, error |-> NoError, log |-> <<>>]

Count(log, events) == Cardinality({k \in 1..Len(log) : log[k] \in events})

KillEvents == {"kill", "killErr"}
LaunchEvents == {"launch", "launchErr"}
WriteEvents == {"write", "writeErr"}
ProbeEvents == {"reuseProbe", "freshProbe"}

\* the captured stderr of a gateway process: a hung startup script has
\* reported its failed setup step, a starting one has printed nothing
StderrOf(p) == IF procs[p].delay = Never THEN "onboard failed" ELSE ""


\* line 217: new Error(`OpenClaw gateway failed to start. Stderr: ${logs.stderr || '(empty)'}`)
DescriptiveError(stderr) ==
    [kind |-> "descriptive", stderr |-> IF stderr = "" THEN "(empty)" ELSE stderr]

\* the throw of line 222 throwing what the inner catch caught
CatchLogErrRethrowsLogErr(e, logErr) == logErr

\* lines 220-223: catch (logErr) { throw e } catches whatever the try block
\* of lines 213-219 threw, the descriptive error of line 217 included
CatchLogErr(e, logErr) == e

\* lines 213-223: what the catch block of line 211 throws, e being what it caught
RaisedAfterLogs(e, logsOk, stderr) ==
    CatchLogErr(e, IF logsOk THEN DescriptiveError(stderr) ELSE LogsError)

NoConfig == [origin |-> "absent", providers |-> [p \in {} |-> "none"], defaultModel |-> "",
             auth |-> "none", allowInsecureAuth |-> FALSE]

ExternalConfig == [NoConfig EXCEPT !.origin = "external"]

\* lines 73-77: the file the node -e helper writes
SeededFile(e) ==
    LET c == BuildConfig(e) IN
    [origin |-> "seeded", providers |-> c.providers, defaultModel |-> c.defaultModel,
     auth |-> c.auth, allowInsecureAuth |-> c.allowInsecureAuth]

\* a sandbox call succeeds, or fails while `left` calls may still fail
Outs(left) == IF left > 0 THEN {TRUE, FALSE} ELSE {TRUE}

Left(left, ok) == IF ok THEN left ELSE left - 1

Outcomes == Outs(faults)

Spend(ok) == Left(faults, ok)

\* the invocations, and invocation r moving on to r2; invocations carry no
\* identity, so the ones in the same state are copies of one record
Invs == BagToSet(inv)

Become(r, r2) == inv' = (inv (-) SetToBag({r})) (+) SetToBag({r2})

\* how long after its launch a gateway that starts well opens its port: as
\* late as the startup timeout allows
ReadyDelays == {STARTUP_TIMEOUT_MS}

StartupDelays == ReadyDelays \cup {Never}

-----------------------------------------------------------------------------
(* ensureMoltbotGateway, lines 141-230 *)

\* a failure of the remote-storage mount step, and of listProcesses
MountError == [kind |-> "mount", stderr |-> ""]
ListError == [kind |-> "list", stderr |-> ""]

\* the mount helper throwing its failure at its caller
ensureRcloneConfigThrows(ok) == IF ok THEN NoError ELSE MountError

\* ensureRcloneConfig (imported from ./r2, line 5): what it throws.  It is
\* best-effort: it reports a failed mount and throws nothing
ensureRcloneConfig(ok) == NoError

\* the catch of line 123 throwing on what it caught
ListCatchRethrows(e) == e

\* lines 123-126: catch (e) logs the failed listing; return null follows
ListCatch(e) == NoError

\* lines 144-161: ensureRcloneConfig, discovery, and the reuse probe issued
\* on a found process.  Neither call is wrapped in a try here, so whatever
\* one of them throws leaves the function.
Discover(r) ==
    /\ r.pc = "idle"
    /\ \E mountOk \in Outs(faults) : \E listOk \in Outs(Left(faults, mountOk)) :
         LET found == findExistingMoltbotProcess(procs, listOk)
             mountRaised == ensureRcloneConfig(mountOk)
             listRaised == IF listOk THEN NoError ELSE ListCatch(ListError)
             mounted == <<IF mountOk THEN "mount" ELSE "mountErr">>
             listed == <<IF listOk THEN "list" ELSE "listErr">>
         IN
         IF mountRaised # NoError
         THEN /\ listOk
              /\ Become(r, [r EXCEPT !.pc = "failed", !.error = mountRaised,
                                     !.log = @ \o mounted])
              /\ faults' = Left(faults, mountOk)
         ELSE IF listRaised # NoError
         THEN /\ Become(r, [r EXCEPT !.pc = "failed", !.error = listRaised,
                                     !.log = @ \o mounted \o listed])
              /\ faults' = Left(Left(faults, mountOk), listOk)
         ELSE /\ Become(r, [r EXCEPT
                    !.existing = found,
                    !.listed = IF listOk THEN LastLive(procs) ELSE 0,
                    !.pc = IF found # 0 THEN "reuseProbe" ELSE "start",
                    !.remaining = IF found # 0 THEN ReuseTimeout ELSE 0,
                    !.log = @ \o mounted \o listed
                              \o (IF found # 0 THEN <<"reuseProbe">> ELSE <<>>)])
              /\ faults' = Left(Left(faults, mountOk), listOk)
    /\ UNCHANGED <<procs, env, configFile>>

\* the return of line 163 lost: a reachable process falls through to the
\* fresh start
ReuseProbeOkFallsThrough(r) ==
    /\ r.pc = "reuseProbe"
    /\ Reachable(r.existing)
    /\ Become(r, [r EXCEPT !.pc = "start", !.log = @ \o <<"reuseOk">>])
    /\ UNCHANGED <<procs, env, configFile, faults>>

\* lines 161-163: the port of the discovered process is reachable
ReuseProbeOk(r) ==
    /\ r.pc = "reuseProbe"
    /\ Reachable(r.existing)
    /\ Become(r, [r EXCEPT !.pc = "done", !.result = r.existing,
                           !.log = @ \o <<"reuseOk">>])
    /\ UNCHANGED <<procs, env, configFile, faults>>

\* the kill of line 169 lost: an unreachable process is left alone
ReuseProbeTimeoutNoKill(r) ==
    /\ r.pc = "reuseProbe"
    /\ r.remaining = 0
    /\ ~Reachable(r.existing)
    /\ Become(r, [r EXCEPT !.pc = "start", !.log = @ \o <<"reuseTimeout">>])
    /\ UNCHANGED <<procs, env, configFile, faults>>

\* lines 165-167: waitForPort on the discovered process timed out
ReuseProbeTimeout(r) ==
    /\ r.pc = "reuseProbe"
    /\ r.remaining = 0
    /\ ~Reachable(r.existing)
    /\ Become(r, [r EXCEPT !.pc = "kill", !.log = @ \o <<"reuseTimeout">>])
    /\ UNCHANGED <<procs, env, configFile, faults>>

\* the fall through of line 173 replaced by a return to discovery
KillThenRediscover(r) ==
    /\ r.pc = "kill"
    /\ \E ok \in Outcomes :
         /\ procs' = IF ok /\ procs[r.existing].status \in LiveStatuses
                      THEN [procs EXCEPT ![r.existing].status = "killed"]
                      ELSE procs
         /\ Become(r, [r EXCEPT !.pc = "idle",
                                !.log = @ \o <<IF ok THEN "kill" ELSE "killErr">>])
         /\ faults' = Spend(ok)
    /\ UNCHANGED <<env, configFile>>

\* the catch of line 171 lost: a failing kill ends the invocation
KillFailureFatal(r) ==
    /\ r.pc = "kill"
    /\ \E ok \in Outcomes :
         /\ procs' = IF ok /\ procs[r.existing].status \in LiveStatuses
                      THEN [procs EXCEPT ![r.existing].status = "killed"]
                      ELSE procs
         /\ Become(r, [r EXCEPT !.pc = IF ok THEN "start" ELSE "failed",
                                !.error = IF ok THEN @ ELSE [kind |-> "kill", stderr |-> ""],
                                !.log = @ \o <<IF ok THEN "kill" ELSE "killErr">>])
         /\ faults' = Spend(ok)
    /\ UNCHANGED <<env, configFile>>

\* lines 168-172: best-effort kill of the discovered process
Kill(r) ==
    /\ r.pc = "kill"
    /\ \E ok \in Outcomes :
         /\ procs' = IF ok /\ procs[r.existing].status \in LiveStatuses
                      THEN [procs EXCEPT ![r.existing].status = "killed"]
                      ELSE procs
         /\ Become(r, [r EXCEPT !.pc = "start",
                                !.log = @ \o <<IF ok THEN "kill" ELSE "killErr">>])
         /\ faults' = Spend(ok)
    /\ UNCHANGED <<env, configFile>>

\* a failure while the config is written: startProcess(writeCmd),
\* waitForProcess or getLogs threw (lines 79-81)
WriteError == [kind |-> "write", stderr |-> ""]

\* the catch of line 86 throwing on what it caught
PreseedCatchRethrows(e) == e

\* lines 86-89: catch (e) logs the failed write and does not throw
PreseedCatch(e) == NoError

\* lines 13-90: the ways preseedOpenClawConfig can go when `left` sandbox
\* calls may still fail.  With a provider key it starts the write helper,
\* waits for it and reads its logs; any of the three failing is caught
\* (lines 86-89).  The helper that was waited for has written the file; one
\* whose wait failed is left running.  `raised` is what the function throws.
Preseed(e, left) ==
    IF SkipPreseed(e)
    THEN {[started |-> FALSE, written |-> FALSE, left |-> left, events |-> <<"seed">>,
           raised |-> NoError]}
    ELSE {[started |-> FALSE, written |-> FALSE, left |-> left - 1,
           events |-> <<"seed", "writeErr">>,
           raised |-> PreseedCatch(WriteError)] : x \in Outs(left) \ {TRUE}}
         \cup
         {[started |-> TRUE, written |-> FALSE, left |-> left - 1,
           events |-> <<"seed", "write", "waitErr">>,
           raised |-> PreseedCatch(WriteError)] : x \in Outs(left) \ {TRUE}}
         \cup
         {[started |-> TRUE, written |-> TRUE, left |-> Left(left, logsOk),
           events |-> <<"seed", "write">> \o (IF logsOk THEN <<>> ELSE <<"writeLogsErr">>),
           raised |-> IF logsOk THEN NoError ELSE PreseedCatch(WriteError)] :
             logsOk \in Outs(left)}

\* the throw of line 199 lost: the failed launch is tried again
LaunchFailedRetried(base) ==
    [base EXCEPT !.pc = "start", !.log = @ \o <<"launchErr">>]

\* lines 196-199: startProcess threw; the error is logged and thrown on
LaunchFailed(base) ==
    [base EXCEPT !.pc = "failed", !.error = StartError, !.log = @ \o <<"launchErr">>]

\* lines 176-205: the fresh start.  preseedOpenClawConfig, then
\* startProcess(command) and the probe issued on the new process; what
\* preseedOpenClawConfig throws leaves the function at line 184, a failing
\* startProcess is thrown on (line 199).  The write helper is no gateway to
\* any listing, so the seeding and the launch are one step to the other
\* invocations.
FreshStart(r) ==
    /\ r.pc = "start"
    /\ \E seeded \in Preseed(env, faults) : \E ok \in Outs(seeded.left) :
         LET helper == Proc(WriteCommand("config"),
                            IF seeded.written THEN "completed" ELSE "running",
                            Never, Never)
             listing == IF seeded.started THEN Append(procs, helper) ELSE procs
             base == [r EXCEPT !.helper = IF seeded.started THEN Len(procs) + 1 ELSE 0,
                               !.log = @ \o seeded.events]
         IN
         /\ configFile' = IF seeded.written THEN SeededFile(env) ELSE configFile
         /\ faults' = Left(seeded.left, ok)
         /\ IF seeded.raised # NoError
            THEN /\ procs' = listing
                 /\ Become(r, [base EXCEPT !.pc = "failed", !.error = seeded.raised])
            ELSE IF ok
            THEN \E delay \in StartupDelays :
                 /\ procs' = Append(listing, Proc(GatewayCommand, "starting", delay, delay))
                 /\ Become(r, [base EXCEPT
                        !.pc = "freshProbe",
                        !.process = Len(listing) + 1,
                        !.remaining = FreshTimeout,
                        !.log = @ \o <<"launch", "freshProbe">>])
            ELSE /\ procs' = listing
                 /\ Become(r, LaunchFailed(base))
    /\ UNCHANGED env

\* lines 211-223: the catch block, entered with the caught error e when
\* `left` sandbox calls may still fail and after the calls `events`: getLogs
\* for diagnostics, then the throw
Fail(r, e, left, events) ==
    \E ok \in Outs(left) :
       /\ Become(r, [r EXCEPT
              !.pc = "failed",
              !.caught = e,
              !.error = RaisedAfterLogs(e, ok, StderrOf(r.process)),
              !.log = @ \o events \o <<IF ok THEN "getLogs" ELSE "getLogsErr">>])
       /\ faults' = Left(left, ok)

\* lines 205-210, 229: the port of the new process is reachable; getLogs runs
\* inside the try of line 203, so when it throws the catch of line 211 runs
FreshProbeOk(r) ==
    /\ r.pc = "freshProbe"
    /\ Reachable(r.process)
    /\ \E ok \in Outcomes :
         IF ok
         THEN /\ Become(r, [r EXCEPT !.pc = "done", !.result = r.process,
                                     !.log = @ \o <<"freshOk", "readyLogs">>])
              /\ UNCHANGED faults
         ELSE Fail(r, LogsError, faults - 1, <<"freshOk", "readyLogsErr">>)
    /\ UNCHANGED <<procs, env, configFile>>

\* lines 205, 211-223: waitForPort on the new process timed out
FreshProbeTimeout(r) ==
    /\ r.pc = "freshProbe"
    /\ r.remaining = 0
    /\ ~Reachable(r.process)
    /\ Fail(r, TimeoutError, faults, <<"freshTimeout">>)
    /\ UNCHANGED <<procs, env, configFile>>

\* an invocation is blocked in waitForPort
Probing(r) == r.pc \in {"reuseProbe", "freshProbe"}

\* the process invocation r probes
Probed(r) == IF r.pc = "reuseProbe" THEN r.existing ELSE r.process

\* the probe of invocation r has run out: its timeout fires before time moves on
Expired(r) == Probing(r) /\ r.remaining = 0 /\ ~Reachable(Probed(r))

Dec(n) == IF n > 0 THEN n - 1 ELSE n

\* invocation r one tick later
Later(r) == IF Probing(r) THEN [r EXCEPT !.remaining = Dec(@)] ELSE r

\* one tick passes: every startup and every probe in progress is one tick
\* further
Tick ==
    /\ \A r \in Invs : ~Expired(r)
    /\ procs' = [p \in 1..Len(procs) |-> [procs[p] EXCEPT !.opensIn = Dec(@)]]
    /\ inv' = [x \in {Later(r) : r \in Invs} |->
                 Cardinality(UNION {{<<r, k>> : k \in 1..inv[r]} :
                                       r \in {q \in Invs : Later(q) = x}})]
    /\ <<procs', inv'>> # <<procs, inv>>
    /\ UNCHANGED <<env, configFile, faults>>

\* a gateway found in the sandbox at the first invocation: already serving,
\* hung with its port closed, or started a moment ago by an earlier request
\* and slower to open its port than the startup timeout allows
ReadyGateway == Proc(GatewayCommand, "running", STARTUP_TIMEOUT_MS, 0)
StuckGateway == Proc(GatewayCommand, "running", Never, Never)
SlowGateway ==
    Proc(GatewayCommand, "starting", STARTUP_TIMEOUT_MS + 1, STARTUP_TIMEOUT_MS + 1)

\* the sandbox at the first invocation: fresh, or holding a gateway and the
\* config it was started with
InitSandboxes ==
    { <<<<>>, NoConfig>>,
      <<<<ReadyGateway>>, ExternalConfig>>,
      <<<<StuckGateway>>, ExternalConfig>>,
      <<<<SlowGateway>>, ExternalConfig>> }

NoOptions(e) == ~e.baseUrl /\ ~e.token /\ ~e.dev

InitEnvs == {e \in Envs : NoOptions(e) /\ e.keys \in {{}, {"ANTHROPIC", "OPENAI"}}}

Init ==
    /\ \E sandbox \in InitSandboxes : procs = sandbox[1] /\ configFile = sandbox[2]
    /\ inv = [r \in {NewInvocation} |-> NumInvocations]
    /\ env \in InitEnvs
    /\ faults = MaxFaults

\* concurrent invocations: any invocation may take its next step
Next ==
    \/ \E r \in Invs : Discover(r)
    \/ \E r \in Invs : ReuseProbeOk(r)
    \/ \E r \in Invs : ReuseProbeTimeout(r)
    \/ \E r \in Invs : Kill(r)
    \/ \E r \in Invs : FreshStart(r)
    \/ \E r \in Invs : FreshProbeOk(r)
    \/ \E r \in Invs : FreshProbeTimeout(r)
    \/ Tick

Spec == Init /\ [][Next]_vars

InitFair ==
    /\ \E sandbox \in InitSandboxes : procs = sandbox[1] /\ configFile = sandbox[2]
    /\ inv = [r \in {NewInvocation} |-> FairInvocations]
    /\ env \in InitEnvs
    /\ faults = MaxFaults

\* every sandbox call returns or fails and every timeout fires: a step that
\* can be taken is taken
SpecFair == InitFair /\ [][Next]_vars /\ WF_vars(Next)

-----------------------------------------------------------------------------
(* Invocations one after the other, every environment *)

InFlight == {r \in Invs : r.pc \notin {"idle", "done", "failed"}}

InitSeq ==
    /\ \E sandbox \in InitSandboxes : procs = sandbox[1] /\ configFile = sandbox[2]
    /\ inv = [r \in {NewInvocation} |-> NumInvocations]
    /\ env \in Envs
    /\ faults = MaxFaults

\* an invocation starts only when none is in flight
NextSeq ==
    \/ \E r \in Invs : InFlight = {} /\ Discover(r)
    \/ \E r \in Invs : ReuseProbeOk(r)
    \/ \E r \in Invs : ReuseProbeTimeout(r)
    \/ \E r \in Invs : Kill(r)
    \/ \E r \in Invs : FreshStart(r)
    \/ \E r \in Invs : FreshProbeOk(r)
    \/ \E r \in Invs : FreshProbeTimeout(r)
    \/ Tick

SpecSeq == InitSeq /\ [][NextSeq]_vars

-----------------------------------------------------------------------------
(* The classifier on process lists *)

SampleCommands ==
    { GatewayCommand,
      <<"openclaw", SP, "gateway", SP, "--port", SP, "18789">>,
      <<"/usr/local/bin/", "start-moltbot.sh">>,
      <<"clawdbot", SP, "gateway">>,
      <<"openclaw", SP, "devices", SP, "list">>,
      <<"openclaw", SP, "--version">>,
      <<"openclaw", SP, "gateway", SP, "&&", SP, "openclaw", SP, "onboard">>,
      <<"start-moltbot.sh", SP, "&&", SP, "clawdbot", SP, "devices", SP, "list">>,
      WriteCommand("config"),
      <<"openclaw", "gateway">> }

SampleStatuses == {"starting", "running", "completed", "killed"}

SampleProcs == {Proc(c, st, Never, Never) : c \in SampleCommands, st \in SampleStatuses}

SampleLists == UNION {[1..n -> SampleProcs] : n \in 0..MaxList}

InitClassifier ==
    /\ procs \in SampleLists
    /\ configFile = NoConfig
    /\ inv = [r \in {NewInvocation} |-> 1]
    /\ env \in {e \in Envs : NoOptions(e) /\ e.keys = {}}
    /\ faults = MaxFaults

NextClassifier == \E r \in Invs : Discover(r)

SpecClassifier == InitClassifier /\ [][NextClassifier]_vars

-----------------------------------------------------------------------------
(* What an invocation has done, read from its log *)

Has(r, event) == \E k \in 1..Len(r.log) : r.log[k] = event

Kills(r) == Count(r.log, KillEvents)
Launches(r) == Count(r.log, LaunchEvents)
Writes(r) == Count(r.log, WriteEvents)
Seeds(r) == Count(r.log, {"seed"})

\* every event of `first` in the log comes before every event of `second`
Precedes(r, first, second) ==
    \A k \in 1..Len(r.log) : r.log[k] \in second =>
        \A j \in k..Len(r.log) : r.log[j] \notin first

Finished(r) == r.pc \in {"done", "failed"}

LiveGateways == {p \in 1..Len(procs) : IsLiveGateway(procs[p])}

-----------------------------------------------------------------------------
(* Properties *)

\* C1: an invocation whose discovery returned a live gateway process and
\* whose probe of it succeeded has issued no kill, no launch and no config
\* write, has started no write helper, and has returned the discovered handle.
ReusePathReturnsDiscovered ==
    \A r \in Invs : Has(r, "reuseOk") =>
        /\ Kills(r) = 0 /\ Launches(r) = 0 /\ Writes(r) = 0 /\ Seeds(r) = 0
        /\ r.helper = 0 /\ r.process = 0
        /\ r.pc = "done"
        /\ r.existing # 0 /\ r.result = r.existing

ReusePathTaken ==
    \E r \in Invs : Has(r, "reuseOk") /\ r.pc = "done" /\ IsLiveGateway(procs[r.result])

\* C2: an invocation whose probe of the discovered process timed out issues
\* its kill, its seeding and its launch at most once each and in that order;
\* once it has ended it has issued exactly one kill (on the discovered
\* process), run the seeder exactly once (which writes once when a provider
\* key is present) and issued exactly one launch; the handle it returns is
\* the launched process, not the discovered one.
RestartPathOneKillOneLaunch ==
    \A r \in Invs : Has(r, "reuseTimeout") =>
        /\ Kills(r) <= 1 /\ Seeds(r) <= 1 /\ Launches(r) <= 1
        /\ Precedes(r, KillEvents, {"seed"})
        /\ Precedes(r, {"seed"} \cup WriteEvents, LaunchEvents)
        /\ Precedes(r, {"reuseTimeout"}, KillEvents)
        /\ Has(r, "kill") => procs[r.existing].status = "killed"
        /\ Finished(r) =>
             /\ Kills(r) = 1 /\ Seeds(r) = 1 /\ Launches(r) = 1
             /\ Writes(r) = IF env.keys = {} THEN 0 ELSE 1
        /\ r.pc = "done" =>
             /\ r.process # 0 /\ r.result = r.process /\ r.result # r.existing
             /\ procs[r.result].command = GatewayCommand

RestartPathReturned ==
    \E r \in Invs : Has(r, "reuseTimeout") /\ r.pc = "done" /\ Writes(r) = 1

\* C3: when the probe of the freshly launched process timed out and its logs
\* were retrieved, the error raised is the descriptive one carrying the
\* captured stderr, not the timeout error.
FreshTimeoutRaisesDescriptive ==
    \A r \in Invs :
        (r.pc = "failed" /\ Has(r, "freshTimeout") /\ Has(r, "getLogs")) =>
            /\ r.error.kind = "descriptive"
            /\ r.error.stderr = (IF StderrOf(r.process) = "" THEN "(empty)"
                                 ELSE StderrOf(r.process))

\* C4: the sandbox never holds more than one gateway process in status
\* starting or running.
AtMostOneLiveGateway == Cardinality(LiveGateways) <= 1

\* a gateway that opens its port within STARTUP_TIMEOUT_MS of its launch
StartsInTime(p) == procs[p].delay # Never /\ procs[p].delay <= STARTUP_TIMEOUT_MS

\* C5: when invocation b's listing held the gateway process P that invocation
\* a launched, and P opens its port within the startup timeout, then b issues
\* no launch, no kill and no config write and returns P, as a does.
SecondCallerReusesLaunched ==
    \A a, b \in Invs :
        (/\ a.process # 0 /\ b.listed >= a.process
         /\ StartsInTime(a.process)
         /\ Finished(b)) =>
            /\ Launches(b) = 0 /\ Kills(b) = 0 /\ Writes(b) = 0
            /\ b.pc = "done" /\ b.result = a.process
            /\ a.pc = "done" => a.result = b.result

\* C6: no invocation kills, or is about to kill, a gateway process that
\* opens its port within STARTUP_TIMEOUT_MS of its launch, and no such
\* process is ever in status killed.
NoFalseRestart ==
    /\ \A r \in Invs : (r.pc = "kill" \/ Kills(r) > 0) => ~StartsInTime(r.existing)
    /\ \A p \in 1..Len(procs) : procs[p].status = "killed" => ~StartsInTime(p)

\* an invocation found another one's launched process before its port was
\* open, waited for it with the full timeout and reused it
InFlightStartReused ==
    \E a, b \in Invs :
        /\ a.process # 0 /\ b.existing = a.process
        /\ Has(b, "reuseOk") /\ b.remaining < ReuseTimeout
        /\ procs[a.process].status \in LiveStatuses

\* C7: with a ready gateway in the sandbox, every invocation that has ended
\* has returned that gateway and has issued no launch, no kill and no config
\* write.
SequentialIdempotence ==
    (Len(procs) >= 1 /\ procs[1] = ReadyGateway) =>
        \A r \in Invs : Finished(r) =>
            /\ r.pc = "done" /\ r.result = 1
            /\ Launches(r) = 0 /\ Kills(r) = 0 /\ Writes(r) = 0

\* the processes of a listing that match a launcher pattern, match no
\* management-subcommand pattern and are starting or running
Candidates(processes) ==
    {k \in 1..Len(processes) :
        /\ \E pat \in LauncherPatterns : Includes(processes[k].command, pat)
        /\ \A pat \in CliPatterns : ~Includes(processes[k].command, pat)
        /\ processes[k].status \in {"starting", "running"}}

\* the reference classifier: the first candidate in listing order, 0 for none
Reference(processes) ==
    IF Candidates(processes) = {} THEN 0
    ELSE CHOOSE k \in Candidates(processes) : \A j \in Candidates(processes) : k <= j

\* C8: discovery with a successful listing returns what the reference
\* classifier returns; so it returns no process that matches a management
\* pattern and none in a terminal status; a failed listing returns none.
ClassifierMatchesReference ==
    \A r \in Invs : r.pc # "idle" =>
        /\ Has(r, "list") =>
             /\ r.existing = Reference(procs)
             /\ r.existing # 0 =>
                  /\ ~isCliCommand(procs[r.existing].command)
                  /\ procs[r.existing].status \notin {"completed", "killed"}
        /\ Has(r, "listErr") => r.existing = 0

\* the first process listed is live and matches both a launcher and a
\* management pattern, and the second one is returned
SkippedManagementCommand ==
    \E r \in Invs :
        /\ Has(r, "list") /\ r.existing = 2
        /\ isGatewayProcess(procs[1].command) /\ isCliCommand(procs[1].command)
        /\ procs[1].status = "running"

Priority == <<"GEMINI", "ANTHROPIC", "OPENAI">>

\* the highest-priority provider of a non-empty set of keys
Top(keys) ==
    Priority[CHOOSE k \in 1..3 : Priority[k] \in keys /\ \A j \in 1..(k - 1) : Priority[j] \notin keys]

SectionOf(provider) ==
    CASE provider = "GEMINI" -> "google-gemini"
      [] provider = "ANTHROPIC" -> "anthropic"
      [] provider = "OPENAI" -> "openai"

FixedDefault(provider) ==
    CASE provider = "GEMINI" -> "google-gemini/gemini-2.0-flash"
      [] provider = "ANTHROPIC" -> "anthropic/claude-sonnet-4-20250514"
      [] provider = "OPENAI" -> "openai/gpt-4o"

\* a config with the one provider section of `provider`, its key and its default model
OnlyProvider(config, provider) ==
    /\ DOMAIN config.providers = {SectionOf(provider)}
    /\ config.providers[SectionOf(provider)].apiKey = provider
    /\ config.defaultModel = FixedDefault(provider)

\* C9: with at least one key present the config built has exactly one
\* provider section, that of the highest-priority key present, with that
\* provider's key and fixed default model; the seeder then issues its write,
\* and a seeded config file is that config.
CredentialSelection ==
    /\ env.keys # {} =>
         /\ Cardinality(DOMAIN BuildConfig(env).providers) = 1
         /\ OnlyProvider(BuildConfig(env), Top(env.keys))
         /\ \A r \in Invs : Has(r, "seed") => Writes(r) = 1
    /\ configFile.origin = "seeded" =>
         /\ env.keys # {}
         /\ OnlyProvider(configFile, Top(env.keys))

SeededSecondaryProvider ==
    /\ env.keys = {"ANTHROPIC", "OPENAI"}
    /\ configFile.origin = "seeded"
    /\ DOMAIN configFile.providers = {"anthropic"}

\* C10: with no provider key present no config write is issued and no write
\* helper is started, the config file is as it was found, and an invocation
\* that has run the seeder issues its launch and, the launch succeeding,
\* probes the new process.
NoKeyNoWrite ==
    env.keys = {} =>
        /\ configFile \in {NoConfig, ExternalConfig}
        /\ \A p \in 1..Len(procs) : procs[p].command # WriteCommand("config")
        /\ \A r \in Invs :
             /\ Writes(r) = 0 /\ r.helper = 0
             /\ Has(r, "seed") => Launches(r) = 1
             /\ Has(r, "launch") => (r.process # 0 /\ Has(r, "freshProbe"))

NoKeyFreshStartLaunched ==
    \E r \in Invs :
        /\ env.keys = {} /\ configFile = ExternalConfig
        /\ Has(r, "seed") /\ Has(r, "launch") /\ r.pc = "done"

\* C11: an invocation whose startProcess of the gateway command failed has
\* ended with that launch error, and the failed launch is the last call it
\* issued: it was its only launch, no probe of a new process and no kill
\* came after it.
LaunchFailureFatal ==
    \A r \in Invs : Has(r, "launchErr") =>
        /\ r.pc = "failed" /\ r.error = StartError /\ r.result = 0
        /\ r.log[Len(r.log)] = "launchErr"
        /\ Launches(r) = 1
        /\ ~Has(r, "freshProbe")

\* a launch failed after the discovered process had been killed
LaunchFailedAfterKill ==
    \E r \in Invs : Has(r, "launchErr") /\ Has(r, "reuseTimeout") /\ r.pc = "failed"

\* C12: an invocation whose probe of the freshly launched process succeeded
\* has returned that process, whether the getLogs call after the probe
\* succeeded or failed.
LogFailureNeverMasksStart ==
    \A r \in Invs : Has(r, "freshOk") =>
        /\ r.pc = "done" /\ r.result = r.process /\ r.error = NoError

\* C13: an invocation whose probe of the freshly launched process timed out
\* has ended with an error and without a handle, and when getLogs failed as
\* well the error is the timeout error of the probe.
FreshTimeoutNeverSilent ==
    \A r \in Invs : Has(r, "freshTimeout") =>
        /\ r.pc = "failed" /\ r.result = 0 /\ r.error # NoError
        /\ Has(r, "getLogsErr") => r.error = TimeoutError

\* the fresh probe timed out and the logs could not be retrieved
FreshTimeoutAndLogsFailed ==
    \E r \in Invs : Has(r, "freshTimeout") /\ Has(r, "getLogsErr") /\ r.pc = "failed"

DiscoveryEvents == {"list", "listErr"}

\* what invocation r has issued so far stays within one discovery, one kill,
\* one launch and two probes; once ended it is Ready with a handle or Failed
\* with an error; a timed-out fresh probe has ended it Failed
WithinOneRestart(r) ==
    /\ Count(r.log, DiscoveryEvents) <= 1
    /\ Kills(r) <= 1 /\ Launches(r) <= 1
    /\ Count(r.log, ProbeEvents) <= 2
    /\ r.pc = "done" => r.result # 0 /\ r.error = NoError
    /\ r.pc = "failed" => r.result = 0 /\ r.error # NoError
    /\ Has(r, "freshTimeout") => r.pc = "failed"

\* C14: every invocation stays within one discovery, one kill, one launch
\* and two probes, ends Ready with a handle or Failed with an error, ends
\* Failed when the probe after the restart timed out, and every invocation
\* eventually ends.
BoundedSupervision ==
    /\ [](\A r \in Invs : WithinOneRestart(r))
    /\ <>[](\A r \in Invs : Finished(r))

\* an invocation restarted the gateway, the probe of the new process timed
\* out as well, and the invocation ended Failed after its second probe
FailedAfterRestart ==
    \E r \in Invs :
        /\ Has(r, "reuseTimeout") /\ Has(r, "freshTimeout")
        /\ r.pc = "failed" /\ Count(r.log, ProbeEvents) = 2 /\ Kills(r) = 1

\* the failures that end a fresh start: of the launch, of the probe, of the
\* getLogs call after a successful probe
FreshStartFailures == {"launchErr", "freshTimeout", "readyLogsErr"}

\* invocation r is past the fresh-start step as an invocation is that
\* reached it unhindered: one seeding, then one launch, the probe issued on
\* a launched process, and Failed only by a failure of the launch or the probe
FreshStartTaken(r) ==
    /\ Seeds(r) = 1 /\ Launches(r) = 1
    /\ Precedes(r, {"seed"}, LaunchEvents)
    /\ Has(r, "launch") => Has(r, "freshProbe")
    /\ r.pc \in {"freshProbe", "done", "failed"}
    /\ r.pc = "failed" => \E k \in 1..Len(r.log) : r.log[k] \in FreshStartFailures
    /\ r.pc = "done" => r.result = r.process

\* C15: an invocation whose kill of the discovered process failed is at the
\* fresh-start step or past it, with the seeding, the launch and the probe
\* issued after the failed kill, and has not ended Failed because of the kill.
KillFailureAdvisory ==
    \A r \in Invs : Has(r, "killErr") =>
        /\ Has(r, "reuseTimeout")
        /\ r.pc = "start" \/ FreshStartTaken(r)
        /\ Precedes(r, {"killErr"}, {"seed"} \cup LaunchEvents \cup {"freshProbe"})

\* the kill failed and the invocation went on to launch a gateway that it
\* returned
ReturnedAfterFailedKill ==
    \E r \in Invs : Has(r, "killErr") /\ r.pc = "done" /\ r.result # r.existing

WriteFailures == {"writeErr", "waitErr", "writeLogsErr"}

\* C16: an invocation that launched with a provider key present issued the
\* config write once and finished with it (its wait and its log read
\* included) before the launch; and an invocation whose config write failed
\* still seeded once and launched once afterwards, and has ended Failed only
\* by a failure of the launch or of the probe.
SeedingBestEffort ==
    \A r \in Invs :
        /\ (env.keys # {} /\ Launches(r) > 0) =>
               /\ Seeds(r) = 1 /\ Writes(r) = 1
               /\ Precedes(r, {"seed", "write"} \cup WriteFailures, LaunchEvents)
        /\ (\E k \in 1..Len(r.log) : r.log[k] \in WriteFailures) =>
               /\ FreshStartTaken(r)
               /\ r.error.kind # "write"

\* the config write failed and the invocation returned the gateway it
\* launched afterwards
ReturnedAfterFailedWrite ==
    \E r \in Invs :
        /\ \E k \in 1..Len(r.log) : r.log[k] \in WriteFailures
        /\ r.pc = "done" /\ r.result = r.process
        /\ configFile.origin # "seeded"

\* C17: an invocation whose listProcesses failed discovered no process,
\* issued no reuse probe and no kill, has not ended because of the listing
\* and is at the fresh-start step or past it (seed, launch, probe), also
\* when the sandbox holds a live gateway.
ListingFailureAdvisory ==
    \A r \in Invs : Has(r, "listErr") =>
        /\ r.existing = 0 /\ ~Has(r, "reuseProbe") /\ Kills(r) = 0
        /\ r.pc = "start" \/ FreshStartTaken(r)

\* the listing failed while a ready gateway was in the sandbox, and the
\* invocation launched another one
LaunchedBesideLiveGateway ==
    \E r \in Invs :
        /\ Has(r, "listErr") /\ Has(r, "launch")
        /\ Len(procs) >= 1 /\ procs[1] = ReadyGateway

LaunchDiscoveryAgreement ==
    \A found \in {findExistingMoltbotProcess(procs, TRUE)} :
    /\ isGatewayProcess(GatewayCommand) /\ ~isCliCommand(GatewayCommand)
    /\ \A r \in Invs :
          (/\ r.process # 0
           /\ procs[r.process].status \in LiveStatuses
           /\ found # r.process) =>
              \E q \in 1..(r.process - 1) : IsLiveGateway(procs[q])
    /\ \A r \in Invs : r.helper # 0 =>
          /\ found # r.helper
          /\ \A b \in Invs : b.existing # r.helper

\* a later invocation discovered the process another one launched, past a
\* config-write helper still running and listed before it
DiscoveredPastRunningHelper ==
    \E a, b \in Invs :
        /\ a.process # 0 /\ b.existing = a.process
        /\ a.helper # 0 /\ a.helper < a.process
        /\ procs[a.helper].status = "running"

\* the processes running the launcher script that are starting or running
LiveLaunched ==
    {p \in 1..Len(procs) :
        procs[p].command = GatewayCommand /\ procs[p].status \in LiveStatuses}

\* no listProcesses call and no kill call has failed so far
ListingsAndKillsSucceeded ==
    \A r \in Invs : ~Has(r, "listErr") /\ ~Has(r, "killErr")

\* C20: with invocations one after the other, from a sandbox holding at most
\* one live gateway, as long as no listing and no kill has failed the sandbox
\* holds at most one gateway process in status starting or running.
SequentialSingleSlot ==
    ListingsAndKillsSucceeded => Cardinality(LiveLaunched) <= 1

\* an invocation ended Failed and left its unreachable process alive; the
\* next one discovered it, killed it and launched the one live gateway
ReplacedAfterFailedStart ==
    \E a, b \in Invs :
        /\ a.pc = "failed" /\ Has(a, "freshTimeout")
        /\ b.existing = a.process /\ Has(b, "kill") /\ Has(b, "launch")
        /\ ListingsAndKillsSucceeded
        /\ Cardinality(LiveLaunched) = 1

====
